---- MODULE Spec2Model ----
(***************************************************************************)
(* Model of extensions/ql-vscode/src/run-remote-query.ts.                  *)
(*                                                                         *)
(* One invocation of an exported function (runRemoteQuery or findLanguage) *)
(* is a sequence of run-to-completion segments: the code between two       *)
(* awaits runs atomically, and each action below is one such segment.  It  *)
(* consumes the result of the awaited operation (chosen with \E from what  *)
(* the collaborator can answer) and starts the next operation.  An         *)
(* operation started with `void` is never awaited: it stays outstanding    *)
(* until the environment completes it (CompleteFloating).                  *)
(***************************************************************************)
EXTENDS Naturals, Sequences, FiniteSets, TLC

VARIABLES
    pc,             \* position of the invocation
    entry,          \* exported function that was called
    uri,            \* the uri / queryUri argument
    activeEditor,   \* window.activeTextEditor?.document.uri
    fsys,           \* the file system: path -> content
    token,          \* local `token` of runRemoteQuery
    query,          \* local `query`
    config,         \* local `config`
    ref,            \* local `ref`
    language,       \* local `language` of runRemoteQuery
    found,          \* local `language` of findLanguage, its return value
    autodetect,     \* history: how cliServer.resolveQueryByLanguage ended
    availableLanguages, \* local `availableLanguages` of findLanguage
    repositories,   \* local `repositories`
    outstanding,    \* asynchronous operations started and not yet completed
    trace,          \* history: operations in the order they were started
    requests,       \* history: parameters of every octokit.request call
    reqOutcome,     \* history: outcome of the last octokit.request
    notifications,  \* history: messages shown to the user
    logs,           \* history: messages given to logger.log
    result,         \* how the invocation ended
    thrown          \* the operation whose failure was propagated

vars == <<pc, entry, uri, activeEditor, fsys, token, query, config, ref,
          language, found, autodetect, availableLanguages, repositories,
          outstanding, trace, requests, reqOutcome, notifications, logs, result,
          thrown>>

-----------------------------------------------------------------------------
(* Values *)

Undef == "<undefined>"
Null == "<null>"

\* JavaScript truthiness of a string | null | undefined value.
Truthy(v) == v \notin {Undef, Null, ""}

OWNER == "dsp-testing"
REPO == "qc-controller"

\* Greatest number of keys of an object returned by the CLI server.
MaxKeys == 2

Languages == {"javascript", "python", ""}
KeyLists == UNION {[1..n -> Languages] : n \in 0..MaxKeys}
Tokens == {"tokenA", "tokenB"}

\* Paths are sequences of characters.
QlSuffix == <<".", "q", "l">>
RepositoriesSuffix == <<".", "r", "e", "p", "o", "s", "i", "t", "o", "r", "i", "e", "s">>
QlPath == <<"q">> \o QlSuffix
RepositoriesPath == <<"q">> \o RepositoriesSuffix
TxtPath == <<"q", ".", "t", "x", "t">>
AqlPath == <<"a", "q", "l">>
ShortPath == <<"q", "l">>

NoUri == [none |-> TRUE]
UriOf(p) == [fsPath |-> p]
Uris == {NoUri, UriOf(QlPath), UriOf(TxtPath), UriOf(AqlPath), UriOf(ShortPath)}
Editors == {NoUri, UriOf(QlPath)}

\* String.prototype.endsWith
EndsWith(s, suffix) ==
    /\ Len(s) >= Len(suffix)
    /\ SubSeq(s, Len(s) - Len(suffix) + 1, Len(s)) = suffix

\* Variant: the suffix is appended to the whole path of the query.
RepositoriesFile_append(queryFile) == queryFile \o RepositoriesSuffix

\* The query file's sibling: '.ql' replaced by '.repositories' (line 61).
RepositoriesFile(queryFile) ==
    SubSeq(queryFile, 1, Len(queryFile) - Len(QlSuffix)) \o RepositoriesSuffix

\* Variant: any uri is accepted.
IsQueryUri_anyUri(u) == u # NoUri

\* The guard of line 51: !uri?.fsPath.endsWith('.ql')
IsQueryUri(u) == u # NoUri /\ EndsWith(u.fsPath, QlSuffix)

-----------------------------------------------------------------------------
(* The file system and the YAML documents of a .repositories file *)

Missing == [kind |-> "missing"]
QueryTexts == {"select 1", ""}
QueryFiles == {[kind |-> "text", text |-> q] : q \in QueryTexts}

RefValues == {Undef, Null, "", "dev"}
LanguageValues == {Undef, Null, "", "cpp"}
RepositoriesValues == {Undef, "[a/b, c/d]"}

\* Texts of a .repositories file: not YAML, an empty document, a scalar, a mapping.
YamlFiles ==
    {[kind |-> "invalid"], [kind |-> "empty"], [kind |-> "scalar"]} \cup
    {[kind |-> "map", ref |-> r, language |-> l, repositories |-> rs] :
        r \in RefValues, l \in LanguageValues, rs \in RepositoriesValues}

FileSystems ==
    {(QlPath :> q) @@ (RepositoriesPath :> y) :
        q \in QueryFiles \cup {Missing}, y \in YamlFiles \cup {Missing}}

\* fs.pathExists
PathExists(fs, p) == p \in DOMAIN fs /\ fs[p] # Missing

\* yaml.safeLoad: throws on text that is not YAML, undefined for an empty
\* document, otherwise the document's value.
SafeLoadThrows(text) == text.kind = "invalid"
SafeLoad(text) ==
    IF text.kind = "empty" THEN [kind |-> "undefined"] ELSE text

\* Reading a property throws a TypeError on undefined; a scalar has none.
PropThrows(doc) == doc.kind = "undefined"
GetProp(doc, name) ==
    IF doc.kind = "map" THEN doc[name] ELSE Undef

\* Variant: no default.
RefOf_noDefault(cfg) == GetProp(cfg, "ref")

\* config.ref || 'main' (line 69)
RefOf(cfg) == IF Truthy(GetProp(cfg, "ref")) THEN GetProp(cfg, "ref") ELSE "main"

\* The request's parameters (lines 80-90).
RequestData(r, lang, repos, q, tok) ==
    [owner |-> OWNER, repo |-> REPO, ref |-> r, language |-> lang,
     repositories |-> repos, query |-> q, token |-> tok]

\* (Object.keys(o))[0]
FirstKey(keys) == IF Len(keys) = 0 THEN Undef ELSE keys[1]

Range(s) == {s[i] : i \in 1..Len(s)}

-----------------------------------------------------------------------------
(* Asynchronous operations *)

Awaited == {"getOctokit", "getToken", "readFile(queryFile)", "pathExists",
            "readFile(repositoriesFile)", "resolveQueryByLanguage",
            "resolveLanguages", "showQuickPick", "octokit.request"}
\* Started with `void`: never awaited.
Floating == {"logger.log", "showAndLogErrorMessage", "showAndLogInformationMessage"}

\* Synchronous calls, recorded in the trace only.
Synchronous == {"findLanguage", "yaml.safeLoad"}

\* One segment: the awaited operations in `finished` have completed and the
\* calls of `started` are made, in this order.
Step(finished, started) ==
    /\ outstanding' = (outstanding \ finished) \cup (Range(started) \ Synchronous)
    /\ trace' = trace \o started

Return ==
    /\ pc' = "done"
    /\ result' = "returned"
    /\ UNCHANGED thrown

Throw(op) ==
    /\ pc' = "done"
    /\ result' = "threw"
    /\ thrown' = op

Goto(label) ==
    /\ pc' = label
    /\ UNCHANGED <<result, thrown>>

ErrorMessage(msg, arg) == [kind |-> "error", msg |-> msg, arg |-> arg]
InfoMessage(msg) == [kind |-> "info", msg |-> msg, arg |-> <<>>]

args == <<entry, uri, activeEditor, fsys>>

TypeOK ==
    /\ pc \in {"idle", "done", "findLanguageReturned"} \cup Awaited
    /\ outstanding \subseteq Awaited \cup Floating
    /\ result \in {"running", "returned", "threw"}

Init ==
    /\ pc = "idle"
    /\ entry = "none"
    /\ uri = NoUri
    /\ activeEditor = NoUri
    /\ fsys \in FileSystems
    /\ token = Undef
    /\ query = Undef
    /\ config = [kind |-> "undefined"]
    /\ ref = Undef
    /\ language = Undef
    /\ found = Undef
    /\ autodetect = "none"
    /\ availableLanguages = <<>>
    /\ repositories = Undef
    /\ outstanding = {}
    /\ trace = <<>>
    /\ requests = <<>>
    /\ reqOutcome = "none"
    /\ notifications = <<>>
    /\ logs = <<>>
    /\ result = "running"
    /\ thrown = "none"

-----------------------------------------------------------------------------
(* findLanguage, lines 23-48 *)

\* Lines 27-30 and 38: the synchronous head of findLanguage, up to its first
\* await.  `finished` and `before` belong to the segment that makes the call.
FindLanguageStart(queryUri, editor, finished, before) ==
    LET u == IF queryUri # NoUri THEN queryUri ELSE editor IN
    IF u # NoUri
    THEN /\ Goto("resolveQueryByLanguage")
         /\ Step(finished, before \o <<"findLanguage", "resolveQueryByLanguage">>)
    ELSE /\ Goto("resolveLanguages")
         /\ Step(finished, before \o <<"findLanguage", "resolveLanguages">>)

\* `return language`: the promise of findLanguage resolves.  The caller, if
\* it is runRemoteQuery, continues in a later segment.
FindLanguageReturn(lang) ==
    /\ found' = lang
    /\ IF entry = "findLanguage" THEN Return ELSE Goto("findLanguageReturned")

\* A call of the exported findLanguage on its own.
Call_findLanguage ==
    /\ pc = "idle"
    /\ \E u \in Uris, e \in Editors :
        /\ entry' = "findLanguage"
        /\ uri' = u
        /\ activeEditor' = e
        /\ FindLanguageStart(u, e, {}, <<>>)
    /\ UNCHANGED <<fsys, token, query, config, ref, language, found, autodetect, availableLanguages,
                   repositories, requests, reqOutcome, notifications, logs>>

\* Variant: the quick pick is also shown when autodetection finds no language.
AfterResolveQueryByLanguage_fallthrough ==
    /\ pc = "resolveQueryByLanguage"
    /\ \/ \E keys \in KeyLists :
            /\ logs' = Append(logs, [msg |-> "Detected query language",
                                     language |-> FirstKey(keys)])
            /\ autodetect' = "returned"
            /\ IF Truthy(FirstKey(keys))
               THEN /\ Step({"resolveQueryByLanguage"}, <<"logger.log">>)
                    /\ FindLanguageReturn(FirstKey(keys))
               ELSE /\ Step({"resolveQueryByLanguage"}, <<"logger.log", "resolveLanguages">>)
                    /\ Goto("resolveLanguages")
                    /\ UNCHANGED found
       \/ /\ logs' = Append(logs, [msg |-> "Could not autodetect query language",
                                   language |-> Undef])
          /\ Step({"resolveQueryByLanguage"}, <<"logger.log", "resolveLanguages">>)
          /\ Goto("resolveLanguages")
          /\ autodetect' = "threw"
          /\ UNCHANGED found
    /\ UNCHANGED <<args, token, query, config, ref, language, availableLanguages,
                   repositories, requests, reqOutcome, notifications>>

\* Lines 30-36 (and 38 when autodetection threw).
AfterResolveQueryByLanguage ==
    /\ pc = "resolveQueryByLanguage"
    /\ \/ \E keys \in KeyLists :
            /\ logs' = Append(logs, [msg |-> "Detected query language",
                                     language |-> FirstKey(keys)])
            /\ Step({"resolveQueryByLanguage"}, <<"logger.log">>)
            /\ FindLanguageReturn(FirstKey(keys))
            /\ autodetect' = "returned"
       \/ /\ logs' = Append(logs, [msg |-> "Could not autodetect query language",
                                   language |-> Undef])
          /\ Step({"resolveQueryByLanguage"}, <<"logger.log", "resolveLanguages">>)
          /\ Goto("resolveLanguages")
          /\ autodetect' = "threw"
          /\ UNCHANGED found
    /\ UNCHANGED <<args, token, query, config, ref, language, availableLanguages,
                   repositories, requests, reqOutcome, notifications>>

\* Lines 38-39.
AfterResolveLanguages ==
    /\ pc = "resolveLanguages"
    /\ \/ \E keys \in KeyLists :
            /\ availableLanguages' = keys
            /\ Step({"resolveLanguages"}, <<"showQuickPick">>)
            /\ Goto("showQuickPick")
       \/ /\ Step({"resolveLanguages"}, <<>>)
          /\ Throw("resolveLanguages")
          /\ UNCHANGED availableLanguages
    /\ UNCHANGED <<args, token, query, config, ref, language, found, autodetect,
                   repositories, requests, reqOutcome, notifications, logs>>

\* Lines 39-47.  The quick pick resolves to an item, or to undefined when the
\* user cancels it.
AfterShowQuickPick ==
    /\ pc = "showQuickPick"
    /\ \/ \E choice \in Range(availableLanguages) \cup {Undef} :
            /\ IF ~Truthy(choice)
               THEN /\ notifications' =
                        Append(notifications, ErrorMessage("Language not found", <<>>))
                    /\ Step({"showQuickPick"}, <<"showAndLogErrorMessage">>)
               ELSE /\ Step({"showQuickPick"}, <<>>)
                    /\ UNCHANGED notifications
            /\ FindLanguageReturn(choice)
       \/ /\ Step({"showQuickPick"}, <<>>)
          /\ Throw("showQuickPick")
          /\ UNCHANGED <<found, notifications>>
    /\ UNCHANGED <<args, token, query, config, ref, language, autodetect,
                   availableLanguages, repositories, requests, reqOutcome, logs>>

-----------------------------------------------------------------------------
(* runRemoteQuery, lines 50-97 *)

\* Variant: both credentials are requested at once.
Call_runRemoteQuery_parallel ==
    /\ pc = "idle"
    /\ \E u \in Uris, e \in Editors :
        /\ entry' = "runRemoteQuery"
        /\ uri' = u
        /\ activeEditor' = e
        /\ IF ~IsQueryUri(u)
           THEN Return /\ Step({}, <<>>)
           ELSE Goto("getOctokit") /\ Step({}, <<"getOctokit", "getToken">>)
    /\ UNCHANGED <<fsys, token, query, config, ref, language, found, autodetect,
                   availableLanguages, repositories, requests, reqOutcome,
                   notifications, logs>>

\* Lines 51-55.
Call_runRemoteQuery ==
    /\ pc = "idle"
    /\ \E u \in Uris, e \in Editors :
        /\ entry' = "runRemoteQuery"
        /\ uri' = u
        /\ activeEditor' = e
        /\ IF ~IsQueryUri(u)
           THEN Return /\ Step({}, <<>>)
           ELSE Goto("getOctokit") /\ Step({}, <<"getOctokit">>)
    /\ UNCHANGED <<fsys, token, query, config, ref, language, found, autodetect, availableLanguages,
                   repositories, requests, reqOutcome, notifications, logs>>

\* Lines 55-56.
AfterGetOctokit ==
    /\ pc = "getOctokit"
    /\ \/ Goto("getToken") /\ Step({"getOctokit"}, <<"getToken">>)
       \/ Throw("getOctokit") /\ Step({"getOctokit"}, <<>>)
    /\ UNCHANGED <<args, token, query, config, ref, language, found, autodetect, availableLanguages,
                   repositories, requests, reqOutcome, notifications, logs>>

\* Lines 56-59.
AfterGetToken ==
    /\ pc = "getToken"
    /\ \/ \E t \in Tokens :
            /\ token' = t
            /\ Goto("readFile(queryFile)")
            /\ Step({"getToken"}, <<"readFile(queryFile)">>)
       \/ /\ Throw("getToken")
          /\ Step({"getToken"}, <<>>)
          /\ UNCHANGED token
    /\ UNCHANGED <<args, query, config, ref, language, found, autodetect, availableLanguages,
                   repositories, requests, reqOutcome, notifications, logs>>

\* Lines 59-62.  The read fails when the file is missing, and may fail for
\* any other reason.
AfterReadQueryFile ==
    /\ pc = "readFile(queryFile)"
    /\ \/ /\ PathExists(fsys, uri.fsPath)
          /\ query' = fsys[uri.fsPath].text
          /\ Goto("pathExists")
          /\ Step({"readFile(queryFile)"}, <<"pathExists">>)
       \/ /\ Throw("readFile(queryFile)")
          /\ Step({"readFile(queryFile)"}, <<>>)
          /\ UNCHANGED query
    /\ UNCHANGED <<args, token, config, ref, language, found, autodetect, availableLanguages,
                   repositories, requests, reqOutcome, notifications, logs>>

\* Lines 62-67.
AfterPathExists ==
    /\ pc = "pathExists"
    /\ IF ~PathExists(fsys, RepositoriesFile(uri.fsPath))
       THEN /\ notifications' =
                Append(notifications,
                       ErrorMessage("Missing file", RepositoriesFile(uri.fsPath)))
            /\ Step({"pathExists"}, <<"showAndLogErrorMessage">>)
            /\ Return
       ELSE /\ Step({"pathExists"}, <<"readFile(repositoriesFile)">>)
            /\ Goto("readFile(repositoriesFile)")
            /\ UNCHANGED notifications
    /\ UNCHANGED <<args, token, query, config, ref, language, found, autodetect, availableLanguages,
                   repositories, requests, reqOutcome, logs>>

\* Variant: the test of line 73 is missing.
Proceed_noCheck(cfg, r, lang, finished, before) ==
    /\ repositories' = GetProp(cfg, "repositories")
    /\ Goto("octokit.request")
    /\ Step(finished, before \o <<"octokit.request">>)
    /\ requests' = Append(requests,
           RequestData(r, lang, GetProp(cfg, "repositories"), query, token))
    /\ reqOutcome' = "pending"

\* Lines 71-78: with the language known, issue the request unless there is
\* no language.
Proceed(cfg, r, lang, finished, before) ==
    /\ repositories' = GetProp(cfg, "repositories")
    /\ IF ~Truthy(lang)
       THEN /\ Return
            /\ Step(finished, before)
            /\ UNCHANGED <<requests, reqOutcome>>
       ELSE /\ Goto("octokit.request")
            /\ Step(finished, before \o <<"octokit.request">>)
            /\ requests' = Append(requests,
                   RequestData(r, lang, GetProp(cfg, "repositories"), query, token))
            /\ reqOutcome' = "pending"

\* Lines 67-78.
AfterReadRepositoriesFile ==
    /\ pc = "readFile(repositoriesFile)"
    /\ LET text == fsys[RepositoriesFile(uri.fsPath)]
           done == {"readFile(repositoriesFile)"} IN
       \/ /\ Throw("readFile(repositoriesFile)")
          /\ Step(done, <<>>)
          /\ UNCHANGED <<config, ref, language, repositories, requests, reqOutcome>>
       \/ /\ SafeLoadThrows(text)
          /\ Throw("yaml.safeLoad")
          /\ Step(done, <<"yaml.safeLoad">>)
          /\ UNCHANGED <<config, ref, language, repositories, requests, reqOutcome>>
       \/ /\ ~SafeLoadThrows(text)
          /\ config' = SafeLoad(text)
          /\ IF PropThrows(SafeLoad(text))
             THEN /\ Throw("config.ref")
                  /\ Step(done, <<"yaml.safeLoad">>)
                  /\ UNCHANGED <<ref, language, repositories, requests, reqOutcome>>
             ELSE /\ ref' = RefOf(SafeLoad(text))
                  /\ IF Truthy(GetProp(SafeLoad(text), "language"))
                     THEN /\ language' = GetProp(SafeLoad(text), "language")
                          /\ Proceed(SafeLoad(text), RefOf(SafeLoad(text)),
                                     GetProp(SafeLoad(text), "language"),
                                     done, <<"yaml.safeLoad">>)
                     ELSE /\ FindLanguageStart(uri, activeEditor, done, <<"yaml.safeLoad">>)
                          /\ UNCHANGED <<language, repositories, requests, reqOutcome>>
    /\ UNCHANGED <<args, token, query, found, autodetect, availableLanguages,
                   notifications, logs>>

\* Lines 70-78, after findLanguage has returned.
AfterFindLanguage ==
    /\ pc = "findLanguageReturned"
    /\ language' = found
    /\ Proceed(config, ref, found, {}, <<>>)
    /\ UNCHANGED <<args, token, query, config, ref, found, autodetect,
                   availableLanguages, notifications, logs>>

\* Variant: the error of the request is shown and thrown again.
AfterRequest_rethrow ==
    /\ pc = "octokit.request"
    /\ \/ /\ reqOutcome' = "ok"
          /\ notifications' = Append(notifications, InfoMessage("Successfully scheduled runs"))
          /\ Step({"octokit.request"}, <<"showAndLogInformationMessage">>)
          /\ Return
       \/ /\ reqOutcome' = "failed"
          /\ notifications' = Append(notifications, ErrorMessage("request error", <<>>))
          /\ Step({"octokit.request"}, <<"showAndLogErrorMessage">>)
          /\ Throw("octokit.request")
    /\ UNCHANGED <<args, token, query, config, ref, language, found, autodetect,
                   availableLanguages, repositories, requests, logs>>

\* Variant: a failed request is issued once more.
AfterRequest_retry ==
    /\ pc = "octokit.request"
    /\ \/ /\ reqOutcome' = "ok"
          /\ notifications' = Append(notifications, InfoMessage("Successfully scheduled runs"))
          /\ Step({"octokit.request"}, <<"showAndLogInformationMessage">>)
          /\ Return
          /\ UNCHANGED requests
       \/ /\ Len(requests) < 2
          /\ reqOutcome' = "pending"
          /\ requests' = Append(requests, requests[Len(requests)])
          /\ Step({"octokit.request"}, <<"octokit.request">>)
          /\ Goto("octokit.request")
          /\ UNCHANGED notifications
       \/ /\ Len(requests) >= 2
          /\ reqOutcome' = "failed"
          /\ notifications' = Append(notifications, ErrorMessage("request error", <<>>))
          /\ Step({"octokit.request"}, <<"showAndLogErrorMessage">>)
          /\ Return
          /\ UNCHANGED requests
    /\ UNCHANGED <<args, token, query, config, ref, language, found, autodetect,
                   availableLanguages, repositories, logs>>

\* Variant: the success message is shown after the try statement.
AfterRequest_messageAfterTry ==
    /\ pc = "octokit.request"
    /\ \/ /\ reqOutcome' = "ok"
          /\ notifications' = Append(notifications, InfoMessage("Successfully scheduled runs"))
          /\ Step({"octokit.request"}, <<"showAndLogInformationMessage">>)
       \/ /\ reqOutcome' = "failed"
          /\ notifications' = notifications \o
                <<ErrorMessage("request error", <<>>),
                  InfoMessage("Successfully scheduled runs")>>
          /\ Step({"octokit.request"},
                  <<"showAndLogErrorMessage", "showAndLogInformationMessage">>)
    /\ Return
    /\ UNCHANGED <<args, token, query, config, ref, language, found, autodetect,
                   availableLanguages, repositories, requests, logs>>

\* Lines 78-96.
AfterRequest ==
    /\ pc = "octokit.request"
    /\ \/ /\ reqOutcome' = "ok"
          /\ notifications' = Append(notifications, InfoMessage("Successfully scheduled runs"))
          /\ Step({"octokit.request"}, <<"showAndLogInformationMessage">>)
       \/ /\ reqOutcome' = "failed"
          /\ notifications' = Append(notifications, ErrorMessage("request error", <<>>))
          /\ Step({"octokit.request"}, <<"showAndLogErrorMessage">>)
    /\ Return
    /\ UNCHANGED <<args, token, query, config, ref, language, found, autodetect,
                   availableLanguages, repositories, requests, logs>>

\* The environment completes an operation that was started with `void`.
CompleteFloating ==
    /\ \E op \in outstanding \cap Floating :
        outstanding' = outstanding \ {op}
    /\ UNCHANGED <<pc, args, token, query, config, ref, language, found, autodetect, availableLanguages,
                   repositories, trace, requests, reqOutcome, notifications, logs,
                   result, thrown>>

Next ==
    \/ Call_runRemoteQuery
    \/ Call_findLanguage
    \/ AfterGetOctokit
    \/ AfterGetToken
    \/ AfterReadQueryFile
    \/ AfterPathExists
    \/ AfterReadRepositoriesFile
    \/ AfterFindLanguage
    \/ AfterResolveQueryByLanguage
    \/ AfterResolveLanguages
    \/ AfterShowQuickPick
    \/ AfterRequest
    \/ CompleteFloating

Spec == Init /\ [][Next]_vars

-----------------------------------------------------------------------------
(* Properties *)

Has(op) == \E i \in DOMAIN trace : trace[i] = op
Before(a, b) == \E i, j \in DOMAIN trace : i < j /\ trace[i] = a /\ trace[j] = b
Shown(m) == \E i \in DOMAIN notifications : notifications[i] = m
ErrorShown == \E i \in DOMAIN notifications : notifications[i].kind = "error"

Running == entry = "runRemoteQuery"
Finished == pc = "done"

\* What the .repositories file on disk says.
FileField(name) ==
    IF fsys[RepositoriesPath].kind = "map" THEN fsys[RepositoriesPath][name] ELSE Undef
NonEmpty(v) == v # Undef /\ v # Null /\ v # ""

SuccessMessage == [kind |-> "info", msg |-> "Successfully scheduled runs", arg |-> <<>>]
MissingFileMessage ==
    [kind |-> "error", msg |-> "Missing file", arg |-> RepositoriesPath]

CliOrPrompt == {"findLanguage", "resolveQueryByLanguage", "resolveLanguages", "showQuickPick"}

(* C1 as stated: no error raised while runRemoteQuery runs is propagated to
   its caller. *)
C1_NeverPropagates == Running => result # "threw"

(* C1, amended: of the errors raised while runRemoteQuery runs, only a
   failure of the HTTP request is caught in runRemoteQuery and shown as an
   error notification (and a failure of resolveQueryByLanguage is caught in
   findLanguage and logged); every other failure is propagated to the caller,
   and then no notification has been shown. *)
C1_OnlyRequestFailureCaught ==
    Running =>
        /\ reqOutcome = "failed" =>
              /\ result = "returned"
              /\ notifications = <<[kind |-> "error", msg |-> "request error", arg |-> <<>>]>>
        /\ autodetect = "threw" => Has("logger.log") /\ thrown # "resolveQueryByLanguage"
        /\ result = "threw" =>
              /\ thrown \in {"getOctokit", "getToken", "readFile(queryFile)",
                             "readFile(repositoriesFile)", "yaml.safeLoad",
                             "config.ref", "resolveLanguages", "showQuickPick"}
              /\ notifications = <<>>

C1_Witness == Running /\ Finished /\ reqOutcome = "failed" /\ result = "returned"

(* C2: in one invocation of runRemoteQuery, octokit.request is called at
   most once, whether the request fails or succeeds. *)
C2_AtMostOneRequest ==
    Running =>
        /\ Len(requests) <= 1
        /\ Cardinality({i \in DOMAIN trace : trace[i] = "octokit.request"}) <= 1

C2_Witness == Running /\ Finished /\ reqOutcome = "failed" /\ Len(requests) = 1

(* C3: the steps of runRemoteQuery happen in the order read query file, read
   and parse the .repositories file, resolve the language, POST, notification;
   the POST is issued only after the parse and with the language resolved, and
   the success notification only after a POST that succeeded. *)
C3_Rank(op) ==
    CASE op = "readFile(queryFile)" -> 1
      [] op = "readFile(repositoriesFile)" -> 2
      [] op = "yaml.safeLoad" -> 3
      [] op \in CliOrPrompt -> 4
      [] op = "octokit.request" -> 5
      [] op = "showAndLogInformationMessage" -> 6
      [] OTHER -> 0

C3_FixedOrder ==
    Running =>
        /\ \A i, j \in DOMAIN trace :
              (i < j /\ C3_Rank(trace[i]) > 0 /\ C3_Rank(trace[j]) > 0)
                  => /\ C3_Rank(trace[i]) <= C3_Rank(trace[j])
                     /\ C3_Rank(trace[i]) = C3_Rank(trace[j]) => C3_Rank(trace[i]) = 4
        /\ Has("octokit.request") =>
              /\ Before("readFile(queryFile)", "octokit.request")
              /\ Before("yaml.safeLoad", "octokit.request")
              /\ NonEmpty(language)
              /\ \/ NonEmpty(FileField("language"))
                 \/ Before("findLanguage", "octokit.request") /\ language = found
        /\ (Shown(SuccessMessage) \/ Has("showAndLogInformationMessage")) =>
              /\ reqOutcome = "ok"
              /\ Before("octokit.request", "showAndLogInformationMessage")

C3_Witness ==
    /\ Running /\ Finished /\ reqOutcome = "ok"
    /\ Shown(SuccessMessage) /\ Has("showQuickPick")

(* C4: the request's parameters: owner and repo are 'dsp-testing' and
   'qc-controller'; repositories and query are what the two files hold; ref is
   the file's ref when present and non-empty, else 'main'; language is the
   file's language when present and non-empty, else the result of
   findLanguage; token is what getToken returned. *)
C4_RequestParameters ==
    Running =>
        \A i \in DOMAIN requests :
            /\ requests[i].owner = "dsp-testing"
            /\ requests[i].repo = "qc-controller"
            /\ requests[i].repositories = FileField("repositories")
            /\ requests[i].query = fsys[QlPath].text
            /\ requests[i].ref =
                  IF NonEmpty(FileField("ref")) THEN FileField("ref") ELSE "main"
            /\ requests[i].language =
                  IF NonEmpty(FileField("language")) THEN FileField("language") ELSE found
            /\ requests[i].token = token
            /\ token \in Tokens

C4_Witness ==
    /\ Running /\ Len(requests) = 1
    /\ FileField("ref") = Null /\ requests[1].ref = "main"
    /\ FileField("language") = "" /\ requests[1].language = "python"

(* C5 as stated: at most one asynchronous operation started by the
   invocation is outstanding at any time. *)
C5_OneOutstanding == Running => Cardinality(outstanding) <= 1

(* C5, amended: at most one awaited operation (credentials, file read,
   existence test, CLI call, quick pick, HTTP request) is outstanding at any
   time; logger.log and the two show...Message calls are started without
   being awaited and may still be outstanding when later operations start. *)
C5_OneAwaitedOutstanding ==
    /\ Cardinality(outstanding \ {"logger.log", "showAndLogErrorMessage",
                                  "showAndLogInformationMessage"}) <= 1
    /\ Finished =>
          outstanding \subseteq {"logger.log", "showAndLogErrorMessage",
                                "showAndLogInformationMessage"}

C5_Witness == Running /\ outstanding = {"logger.log", "octokit.request"}

(* C6: when runRemoteQuery, called with a '.ql' uri, ends without issuing
   the request because findLanguage returned no language, an error
   notification has been shown. *)
C6_NoSilentEnd ==
    (/\ Running /\ Finished /\ result = "returned"
     /\ Has("findLanguage") /\ requests = <<>>) => ErrorShown

(* C7: a non-empty language in the .repositories file means findLanguage is
   never called; otherwise resolveQueryByLanguage is tried first when a uri is
   available; the quick pick comes right after resolveLanguages and only if no
   uri is available or autodetection threw. *)
C7_FallbackOrder ==
    /\ (Running /\ NonEmpty(FileField("language"))) =>
          \A i \in DOMAIN trace : trace[i] \notin CliOrPrompt
    /\ \A i \in DOMAIN trace :
          /\ (trace[i] = "findLanguage" /\ (uri # NoUri \/ activeEditor # NoUri)) =>
                trace[i + 1] = "resolveQueryByLanguage"
          /\ trace[i] = "showQuickPick" =>
                /\ trace[i - 1] = "resolveLanguages"
                /\ \/ uri = NoUri /\ activeEditor = NoUri
                   \/ autodetect = "threw"
          /\ trace[i] = "resolveLanguages" =>
                \/ uri = NoUri /\ activeEditor = NoUri
                \/ autodetect = "threw"
    /\ autodetect = "returned" =>
          ~Has("showQuickPick") /\ ~Has("resolveLanguages")

C7_Witness ==
    /\ Running /\ Has("showQuickPick") /\ autodetect = "threw"
    /\ ~NonEmpty(FileField("language"))

(* C8 as stated: when the sibling .repositories file does not exist,
   runRemoteQuery shows exactly one error notification naming it and returns,
   without parsing or consulting the CLI server, the quick pick or the API. *)
C8_Effects ==
    /\ notifications = <<MissingFileMessage>>
    /\ result = "returned"
    /\ requests = <<>>
    /\ \A i \in DOMAIN trace :
          trace[i] \notin CliOrPrompt \cup {"readFile(repositoriesFile)", "yaml.safeLoad",
                                            "octokit.request",
                                            "showAndLogInformationMessage"}

C8_MissingSibling ==
    (/\ Running /\ Finished /\ uri = UriOf(QlPath)
     /\ fsys[RepositoriesPath] = Missing) => C8_Effects

(* C8, amended: when getOctokit, getToken and the read of the query file
   have succeeded and the sibling .repositories file does not exist,
   runRemoteQuery shows exactly one error notification naming it and returns,
   without parsing or consulting the CLI server, the quick pick or the API. *)
C8_MissingSiblingAfterPrologue ==
    (/\ Running /\ Finished /\ uri = UriOf(QlPath)
     /\ fsys[RepositoriesPath] = Missing
     /\ thrown \notin {"getOctokit", "getToken", "readFile(queryFile)"}) => C8_Effects

C8_Witness ==
    /\ Running /\ Finished /\ uri = UriOf(QlPath)
    /\ fsys[RepositoriesPath] = Missing
    /\ notifications = <<MissingFileMessage>>

(* C9: called with no uri, or a uri whose path does not end in '.ql',
   runRemoteQuery returns and has done nothing. *)
C9_NoEffect ==
    (Running /\ uri \in {NoUri, UriOf(TxtPath), UriOf(AqlPath), UriOf(ShortPath)}) =>
        /\ Finished /\ result = "returned"
        /\ trace = <<>> /\ outstanding = {}
        /\ requests = <<>> /\ notifications = <<>> /\ logs = <<>>
        /\ token = Undef /\ query = Undef

C9_Witness == Running /\ Finished /\ uri = UriOf(AqlPath)

(* C10: the request is never issued with a language that is undefined or
   the empty string. *)
C10_LanguageNeverEmpty ==
    Running =>
        \A i \in DOMAIN requests :
            requests[i].language # Undef /\ requests[i].language # ""

C10_Witness ==
    /\ Running /\ Len(requests) = 1 /\ Has("showQuickPick")
    /\ requests[1].language = "javascript"

====
